---- MODULE Spec2Model ----
(***************************************************************************)
(* Model of study_bot.py: the pomodoro session lifecycle (pomodoro_slash,  *)
(* PomodoroSession) and the file-backed statistics (FileSystemDB).         *)
(*                                                                         *)
(* Time is wall-clock seconds.  The event loop is single threaded, so one  *)
(* action is the code a task runs between two real suspension points       *)
(* (asyncio.sleep and the discord calls).  The FileSystemDB coroutines     *)
(* contain no suspension point: awaiting them runs them to completion.     *)
(***************************************************************************)
EXTENDS Integers, Sequences, FiniteSets, TLC

(* ---------------------------- bounds ----------------------------------- *)
MaxStudy == 2          \* largest valid study_minutes argument that is tried
MaxBreak == 1          \* largest valid break_minutes argument that is tried
NetLate == 20          \* a discord call takes 0 or NetLate seconds
MaxSkew == 1           \* seconds the clock may move between two reads in start()
MaxFolds == 2          \* settlements applied to a stored month

(* ------------------------ program constants ---------------------------- *)
StudyLow == 1
StudyHigh == 120
BreakLow == 0
BreakHigh == 60
MonitorInterval == 10
StudyUpdate == 30
BreakUpdate == 15
TopLimit == 100
SecPerMin == 60

Calls == {1, 2}        \* the /pomodoro invocations of one run
Users == {"A", "B", "C"}
Channels == {"ch1", "ch2"}
NoChannel == "nochannel"
NoCall == 0
NoFile == "nofile"

ORGANIZATIONS ==
  {"Wina", "VTK", "Atmosphere", "Chemica", "BIOS",
   "Atlas", "Politeia", "VRG", "Ekonomika", "Medica"}

\* get_user_org: the first role of the member that names an organization
get_user_org(u) ==
  CASE u = "A" -> "Wina"
    [] u = "B" -> "VTK"
    [] OTHER   -> "None"

Min(a, b) == IF a <= b THEN a ELSE b
Max(a, b) == IF a >= b THEN a ELSE b

\* int(seconds / 60) for a non-negative number of seconds
Minutes(sec) == sec \div SecPerMin

(* ------------------------- credit accountant --------------------------- *)
\* the computation with the cap one minute short
MinutesToAwardShortCap(p, session_start, study_end, duration) ==
  LET time_in_session == Minutes(study_end - p.join_time)
      capped == Min(time_in_session, duration - 1)
      session_elapsed == Minutes(p.join_time - session_start)
      max_possible == Max(0, duration - session_elapsed)
  IN  IF p.late_join THEN Min(capped, max_possible) ELSE capped

\* the computation with the late joiner's cap counted from the next minute
MinutesToAwardLateShort(p, session_start, study_end, duration) ==
  LET time_in_session == Minutes(study_end - p.join_time)
      capped == Min(time_in_session, duration)
      session_elapsed == Minutes(p.join_time - session_start) + 1
      max_possible == Max(0, duration - session_elapsed)
  IN  IF p.late_join THEN Min(capped, max_possible) ELSE capped

\* the computation without min(..., self.duration)
MinutesToAwardNoCap(p, session_start, study_end, duration) ==
  LET time_in_session == Minutes(study_end - p.join_time)
      session_elapsed == Minutes(p.join_time - session_start)
      max_possible == Max(0, duration - session_elapsed)
  IN  IF p.late_join THEN Min(time_in_session, max_possible) ELSE time_in_session

\* award_credit, the computation of minutes_to_award for one participant
MinutesToAward(p, session_start, study_end, duration) ==
  LET time_in_session == Minutes(study_end - p.join_time)
      capped == Min(time_in_session, duration)
      session_elapsed == Minutes(p.join_time - session_start)
      max_possible == Max(0, duration - session_elapsed)
  IN  IF p.late_join THEN Min(capped, max_possible) ELSE capped

\* monitor_late_joiners, the credit announced to a late joiner
PotentialCredit(session_start, t, duration) ==
  Max(0, duration - Minutes(t - session_start))

(* ------------------------------ FileSystemDB --------------------------- *)
\* One record per file of study_sessions/.  The file name is made of the
\* date, the user id and the second of the write (field "written"), so a
\* second write for the same user in the same second replaces the file.
FailKinds == {"ok", "save_fails", "read_fails", "write_fails"}

\* get_monthly_stats when the month's file does not exist
DefaultStats ==
  [organizations |-> [o \in ORGANIZATIONS |-> 0], top_individuals |-> <<>>]

NoStatsFile == [exists |-> FALSE, data |-> DefaultStats]

save_study_session(files, session_doc, t, ok) ==
  IF ok
  THEN {r \in files : ~(r.user_id = session_doc.user_id /\ r.written = t)}
         \cup {[session_doc EXCEPT !.written = t]}
  ELSE files

get_user_sessions(files, user_id) == {r \in files : r.user_id = user_id}

RECURSIVE SumDuration(_)
SumDuration(S) ==
  IF S = {} THEN 0
  ELSE LET r == CHOOSE x \in S : TRUE
       IN  r.duration_minutes + SumDuration(S \ {r})

\* the number of the user's files instead of the sum of their minutes
get_user_monthly_total_count(files, user_id) ==
  Cardinality(get_user_sessions(files, user_id))

get_user_monthly_total(files, user_id) ==
  SumDuration(get_user_sessions(files, user_id))

\* list.sort(key=minutes, reverse=True): stable, so the entries come by
\* falling minutes and the entries with the same minutes keep their order
RECURSIVE FromMinutesDown(_, _)
FromMinutesDown(s, m) ==
  IF m < 0 THEN <<>>
  ELSE SelectSeq(s, LAMBDA e : e.minutes = m) \o FromMinutesDown(s, m - 1)

\* the list left as appended, without the sort
NoSort(s) == s

SortDesc(s) ==
  IF s = <<>> THEN <<>>
  ELSE LET keys == {s[i].minutes : i \in DOMAIN s}
       IN  FromMinutesDown(s, CHOOSE m \in keys : \A k \in keys : k <= m)

\* the comprehension that drops the user's old entry
RemoveUser(top, user_id) == SelectSeq(top, LAMBDA ind : ind.user_id # user_id)

\* top_individuals[:100]
Truncate(top) == SubSeq(top, 1, Min(Len(top), TopLimit))

\* stats["organizations"][org]["total_minutes"] += minutes
AddOrgMinutes(organizations, org, minutes) ==
  LET known == IF org \in DOMAIN organizations
               THEN organizations
               ELSE organizations @@ (org :> 0)
  IN  [known EXCEPT ![org] = @ + minutes]

\* the fold computed from an empty month instead of the file just read, as
\* a fold that does not see what another one has written
update_monthly_stats_stale(file, files, org, minutes, user_id, fail) ==
  LET stats == DefaultStats
      user_total == get_user_monthly_total(files, user_id)
      entry == [user_id |-> user_id, org |-> org, minutes |-> user_total]
      top == Truncate(SortDesc(Append(RemoveUser(stats.top_individuals, user_id), entry)))
  IN  IF file.exists /\ fail = "read_fails" THEN file
      ELSE IF fail = "write_fails" THEN file
      ELSE [exists |-> TRUE,
            data |-> [organizations |-> AddOrgMinutes(stats.organizations, org, minutes),
                      top_individuals |-> top]]

\* update_monthly_stats: the new content of the month's file
update_monthly_stats(file, files, org, minutes, user_id, fail) ==
  LET stats == IF file.exists THEN file.data ELSE DefaultStats
      user_total == get_user_monthly_total(files, user_id)
      entry == [user_id |-> user_id, org |-> org, minutes |-> user_total]
      top == Truncate(SortDesc(Append(RemoveUser(stats.top_individuals, user_id), entry)))
  IN  IF file.exists /\ fail = "read_fails" THEN file
      ELSE IF fail = "write_fails" THEN file
      ELSE [exists |-> TRUE,
            data |-> [organizations |-> AddOrgMinutes(stats.organizations, org, minutes),
                      top_individuals |-> top]]

(* ----------------------- award_credit, the loop ------------------------ *)
\* the test written as minutes_to_award >= 0
ShouldPersistZero(minutes_to_award) == minutes_to_award >= 0

\* if minutes_to_award > 0: only then the record is saved and folded
ShouldPersist(minutes_to_award) == minutes_to_award > 0

\* acc: files, stats, credit_details, awarded_users, left_early
\* ctx: current, session_start, study_end, duration, channel, fail
\* the branch "if user_id in current": credit of a participant who stayed
SettlePresent(p, ctx, acc) ==
  LET minutes_to_award ==
        MinutesToAward(p, ctx.session_start, ctx.study_end, ctx.duration)
      session_doc ==
        [user_id |-> p.user, organization |-> p.organization,
         session_start |-> p.join_time, session_end |-> ctx.study_end,
         duration_minutes |-> minutes_to_award,
         channel_name |-> ctx.channel, late_join |-> p.late_join,
         completed |-> TRUE, written |-> ctx.study_end]
      fail == ctx.fail[p.user]
      files1 == save_study_session(acc.files, session_doc, ctx.study_end,
                                   fail # "save_fails")
      stats1 == update_monthly_stats(acc.stats, files1, p.organization,
                                     minutes_to_award, p.user, fail)
  IN  IF ShouldPersist(minutes_to_award)
      THEN [acc EXCEPT !.files = files1, !.stats = stats1,
              !.awarded_users = @ \cup {p.user},
              !.credit_details = Append(@, [user |-> p.user,
                   minutes |-> minutes_to_award, late |-> p.late_join])]
      ELSE [acc EXCEPT !.awarded_users = @ \cup {p.user}]

\* the loop body without the test of the snapshot
SettleOneNoPresenceTest(p, ctx, acc) == SettlePresent(p, ctx, acc)

\* the body of the loop over self.participants
SettleOne(p, ctx, acc) ==
  IF p.user \in ctx.current
  THEN SettlePresent(p, ctx, acc)
  ELSE [acc EXCEPT !.left_early = @ + 1]

\* the loop left at the first participant whose storage call fails, as if
\* the error were raised instead of caught inside FileSystemDB
RECURSIVE SettleAllUntilFailure(_, _, _)
SettleAllUntilFailure(parts, ctx, acc) ==
  IF parts = <<>> THEN acc
  ELSE IF Head(parts).user \in ctx.current /\ ctx.fail[Head(parts).user] # "ok"
  THEN acc
  ELSE SettleAllUntilFailure(Tail(parts), ctx, SettleOne(Head(parts), ctx, acc))

RECURSIVE SettleAll(_, _, _)
SettleAll(parts, ctx, acc) ==
  IF parts = <<>> THEN acc
  ELSE SettleAll(Tail(parts), ctx, SettleOne(Head(parts), ctx, acc))

(* ------------------------------- state --------------------------------- *)
VARIABLES
  now,              \* datetime.now(), in seconds
  voice,            \* voice state of every non-bot user: a channel or none
  active_sessions,  \* channel id -> the invocation that owns its session
  study_sessions,   \* the files of database/study_sessions
  monthly_stats,    \* the file of database/monthly_stats for the month
  cmd,              \* arguments of each /pomodoro invocation
  task,             \* the command's task: pc, wake-up time, loop variable
  sess,             \* the PomodoroSession object of each invocation
  mon,              \* the monitor_late_joiners task of each invocation
  out               \* what each invocation has reported and done so far

vars == <<now, voice, active_sessions, study_sessions, monthly_stats,
          cmd, task, sess, mon, out>>

UserOrder == <<"A", "B", "C">>

\* [m for m in channel.members if not m.bot], as a set and as a list
Occupants(ch) == {u \in Users : voice[u] = ch}
MemberList(ch) == SelectSeq(UserOrder, LAMBDA u : voice[u] = ch)

NetDelays == {0, NetLate}   \* the announcement and the "study complete" edit
Prompt == {0}               \* the other discord calls return at once

\* the clock is not advanced beyond this
MaxTime == (MaxStudy + MaxBreak) * SecPerMin + 3 * NetLate

\* at most one participant of a settlement meets a storage failure
FailPlans ==
  {[u \in Users |-> "ok"]} \cup
  {[u \in Users |-> IF u = v THEN k ELSE "ok"] :
     v \in Users, k \in FailKinds \ {"ok"}}
StudyArgs == {StudyLow - 1, StudyHigh + 1} \cup (StudyLow..MaxStudy)
BreakArgs == {BreakLow - 1, BreakHigh + 1} \cup (BreakLow..MaxBreak)

NoCmd == [user |-> "A", study_minutes |-> 0, break_minutes |-> 0]
IdleTask == [pc |-> "idle", due |-> 0, elapsed |-> 0]
NoSession ==
  [channel |-> NoChannel, duration |-> 0, break_time |-> 0,
   participants |-> <<>>, session_start |-> 0,
   is_running |-> FALSE, is_study_period |-> FALSE]
NoMonitor == [pc |-> "none", due |-> 0, pending |-> <<>>]
NoOut ==
  [result |-> "none", retired |-> 0, seeded |-> {}, settled |-> FALSE, study_end |-> 0,
   current |-> {}, left_early |-> 0, credit_details |-> <<>>,
   awarded_users |-> {}, notices |-> <<>>,
   storage |-> [u \in Users |-> "ok"]]   \* storage: the outcome of the
                                          \* storage calls made for each user

Init ==
  /\ now = 0
  /\ voice \in [Users -> {"ch1", NoChannel}]
  /\ voice["C"] = NoChannel
  /\ active_sessions = [ch \in Channels |-> NoCall]
  /\ study_sessions = {}
  /\ monthly_stats = NoStatsFile
  /\ cmd = [c \in Calls |-> NoCmd]
  /\ task = [c \in Calls |-> IdleTask]
  /\ sess = [c \in Calls |-> NoSession]
  /\ mon = [c \in Calls |-> NoMonitor]
  /\ out = [c \in Calls |-> NoOut]

ParticipantIds(c) == {sess[c].participants[i].user : i \in DOMAIN sess[c].participants}

\* the wake-up times of the tasks that are suspended
Dues ==
  {task[c].due : c \in {x \in Calls : task[x].pc \notin {"idle", "done"}}}
    \cup {mon[c].due : c \in {x \in Calls : mon[x].pc \in {"sleep", "notify"}}}

(* ---------------------------- environment ------------------------------ *)
\* Members move while every task is suspended: the tasks only see the
\* channel when they read channel.members.
\* a user enters a voice channel (leaving the one they were in)
JoinVoice(u, ch) ==
  /\ \A d \in Dues : d > now
  /\ voice[u] # ch
  /\ voice' = [voice EXCEPT ![u] = ch]
  /\ UNCHANGED <<now, active_sessions, study_sessions, monthly_stats,
                 cmd, task, sess, mon, out>>

LeaveVoice(u) ==
  /\ \A d \in Dues : d > now
  /\ voice[u] # NoChannel
  /\ voice' = [voice EXCEPT ![u] = NoChannel]
  /\ UNCHANGED <<now, active_sessions, study_sessions, monthly_stats,
                 cmd, task, sess, mon, out>>

\* the clock advances to the next wake-up once nothing is ready to run, as
\* long as the wake-up is not after `limit`
Advance(limit) ==
  /\ Dues # {}
  /\ \A d \in Dues : d > now
  /\ LET next == CHOOSE d \in Dues : \A e \in Dues : d <= e
     IN  /\ next <= limit
         /\ now' = next
  /\ UNCHANGED <<voice, active_sessions, study_sessions, monthly_stats,
                 cmd, task, sess, mon, out>>

Tick == Advance(MaxTime)

(* --------------------------- pomodoro_slash ---------------------------- *)
\* /pomodoro is invoked; the handler suspends in interaction.response.defer()
Invoke(c, u, study, brk) ==
  /\ task[c].pc = "idle"
  /\ \A b \in Calls : b < c => task[b].pc # "idle"
  /\ \E d \in Prompt :
       task' = [task EXCEPT ![c] = [pc |-> "defer", due |-> now + d, elapsed |-> 0]]
  /\ cmd' = [cmd EXCEPT ![c] = [user |-> u, study_minutes |-> study,
                                break_minutes |-> brk]]
  /\ UNCHANGED <<now, voice, active_sessions, study_sessions, monthly_stats,
                 sess, mon, out>>

\* the checks without the test "channel.id in active_sessions"
VerdictNoConflict(c) ==
  LET ch == voice[cmd[c].user]
  IN  IF ch = NoChannel THEN "NoVoice"
      ELSE IF Occupants(ch) = {} THEN "ChannelEmpty"
      ELSE IF cmd[c].study_minutes > StudyHigh \/ cmd[c].study_minutes < StudyLow
           THEN "InvalidConfig"
      ELSE IF cmd[c].break_minutes > BreakHigh \/ cmd[c].break_minutes < BreakLow
           THEN "InvalidConfig"
      ELSE "Admit"

\* the checks of pomodoro_slash, in the order of the code
Verdict(c) ==
  LET ch == voice[cmd[c].user]
  IN  IF ch = NoChannel THEN "NoVoice"
      ELSE IF Occupants(ch) = {} THEN "ChannelEmpty"
      ELSE IF active_sessions[ch] # NoCall THEN "Conflict"
      ELSE IF cmd[c].study_minutes > StudyHigh \/ cmd[c].study_minutes < StudyLow
           THEN "InvalidConfig"
      ELSE IF cmd[c].break_minutes > BreakHigh \/ cmd[c].break_minutes < BreakLow
           THEN "InvalidConfig"
      ELSE "Admit"

\* the checks made inside the try block: the finally clause runs on a
\* rejection too and removes the channel's entry
RejectInsideTry(c) ==
  /\ task[c].pc = "defer"
  /\ task[c].due <= now
  /\ Verdict(c) # "Admit"
  /\ task' = [task EXCEPT ![c].pc = "done"]
  /\ out' = [out EXCEPT ![c].result = Verdict(c)]
  /\ active_sessions' =
       [ch \in Channels |-> IF ch = voice[cmd[c].user] THEN NoCall
                            ELSE active_sessions[ch]]
  /\ UNCHANGED <<now, voice, study_sessions, monthly_stats, cmd, sess, mon>>

\* a check fails: the handler sends the explanation and returns
Reject(c) ==
  /\ task[c].pc = "defer"
  /\ task[c].due <= now
  /\ Verdict(c) # "Admit"
  /\ task' = [task EXCEPT ![c].pc = "done"]
  /\ out' = [out EXCEPT ![c].result = Verdict(c)]
  /\ UNCHANGED <<now, voice, active_sessions, study_sessions, monthly_stats,
                 cmd, sess, mon>>

\* add_participant
add_participant(parts, u, t, session_start) ==
  IF \E i \in DOMAIN parts : parts[i].user = u
  THEN parts
  ELSE Append(parts, [user |-> u, organization |-> get_user_org(u),
                      join_time |-> t, late_join |-> t > session_start])

RECURSIVE SeedFrom(_, _, _, _, _)
\* start(), the loop over the members found at start; the clock reads of
\* the members after position k fall MaxSkew later than session_start
SeedFrom(parts, members, i, k, session_start) ==
  IF i > Len(members) THEN parts
  ELSE SeedFrom(add_participant(parts, members[i],
                   IF i > k THEN session_start + MaxSkew ELSE session_start,
                   session_start),
                members, i + 1, k, session_start)

\* the handler without try/finally: only a normal return removes the session
ExitNoFinally(c, result) ==
  LET ch == sess[c].channel
      removes == result = "completed" /\ active_sessions[ch] # NoCall
  IN  /\ active_sessions' = [active_sessions EXCEPT ![ch] = IF removes THEN NoCall ELSE @]
      /\ out' = [out EXCEPT ![c].result = result,
                            ![c].retired = IF removes THEN @ + 1 ELSE @]
      /\ task' = [task EXCEPT ![c].pc = "done"]

\* the finally clause of pomodoro_slash, and the end of the handler
Exit(c, result) ==
  LET ch == sess[c].channel
  IN  /\ active_sessions' = [active_sessions EXCEPT ![ch] = NoCall]
      /\ out' = [out EXCEPT ![c].result = result,
                            ![c].retired = IF active_sessions[ch] # NoCall
                                           THEN @ + 1 ELSE @]
      /\ task' = [task EXCEPT ![c].pc = "done"]

\* all checks pass: the session is registered and start() runs up to the
\* announcement (await followup.send).  start() reads channel.members in
\* the same step as the handler's own test, so it finds the channel occupied.
Admit(c, skewed) ==
  /\ task[c].pc = "defer"
  /\ task[c].due <= now
  /\ Verdict(c) = "Admit"
  /\ LET ch == voice[cmd[c].user]
         members == MemberList(ch)
     IN  \E k \in (IF skewed THEN 0..Len(members) ELSE {Len(members)}), d \in Prompt :
           LET t == IF k < Len(members) THEN now + MaxSkew ELSE now
           IN  /\ active_sessions' = [active_sessions EXCEPT ![ch] = c]
               /\ sess' = [sess EXCEPT ![c] =
                    [channel |-> ch, duration |-> cmd[c].study_minutes,
                     break_time |-> cmd[c].break_minutes,
                     participants |-> SeedFrom(<<>>, members, 1, k, now),
                     session_start |-> now,
                     is_running |-> TRUE, is_study_period |-> FALSE]]
               /\ now' = t
               /\ task' = [task EXCEPT ![c] =
                    [pc |-> "start_send", due |-> t + d, elapsed |-> 0]]
  /\ out' = [out EXCEPT ![c].seeded = Occupants(voice[cmd[c].user])]
  /\ UNCHANGED <<voice, study_sessions, monthly_stats, cmd, mon>>

(* --------------------------- PomodoroSession --------------------------- *)
\* the announcement returns: the monitor task is created and study_period
\* runs up to its first message (await channel.send)
StartSent(c) ==
  /\ task[c].pc = "start_send"
  /\ task[c].due <= now
  /\ \E d \in Prompt :
       task' = [task EXCEPT ![c] = [pc |-> "study_send", due |-> now + d, elapsed |-> 0]]
  /\ sess' = [sess EXCEPT ![c].is_study_period = TRUE]
  /\ mon' = [mon EXCEPT ![c] = [pc |-> "sleep", due |-> now + MonitorInterval,
                                pending |-> <<>>]]
  /\ UNCHANGED <<now, voice, active_sessions, study_sessions, monthly_stats,
                 cmd, out>>

\* a discord call that is not inside a try block raises: the exception
\* leaves start() and the finally clause of the handler runs
SendRaises(c) ==
  /\ task[c].pc \in {"start_send", "study_send", "summary_send", "break_send"}
  /\ task[c].due <= now
  /\ Exit(c, "failed")
  /\ UNCHANGED <<now, voice, study_sessions, monthly_stats, cmd, sess, mon>>

\* the timer message is sent: the study loop is entered
StudySent(c) ==
  /\ task[c].pc = "study_send"
  /\ task[c].due <= now
  /\ task' = [task EXCEPT ![c] = [pc |-> "study_loop", due |-> now, elapsed |-> 0]]
  /\ UNCHANGED <<now, voice, active_sessions, study_sessions, monthly_stats,
                 cmd, sess, mon, out>>

\* the iteration taken only while somebody is in the channel
StudyTickWhenOccupied(c) ==
  /\ task[c].pc = "study_loop"
  /\ task[c].due <= now
  /\ task[c].elapsed < sess[c].duration * SecPerMin
  /\ sess[c].is_running
  /\ Occupants(sess[c].channel) # {}
  /\ \E d \in Prompt :
       LET remaining == sess[c].duration * SecPerMin - task[c].elapsed
       IN  task' = [task EXCEPT ![c].due = now + d + Min(StudyUpdate, remaining),
                                ![c].elapsed = @ + StudyUpdate]
  /\ UNCHANGED <<now, voice, active_sessions, study_sessions, monthly_stats,
                 cmd, sess, mon, out>>

\* one iteration of the study loop: edit the timer message (errors are
\* swallowed) and sleep min(update_int, remaining)
StudyTick(c) ==
  /\ task[c].pc = "study_loop"
  /\ task[c].due <= now
  /\ task[c].elapsed < sess[c].duration * SecPerMin
  /\ sess[c].is_running
  /\ \E d \in Prompt :
       LET remaining == sess[c].duration * SecPerMin - task[c].elapsed
       IN  task' = [task EXCEPT ![c].due = now + d + Min(StudyUpdate, remaining),
                                ![c].elapsed = @ + StudyUpdate]
  /\ UNCHANGED <<now, voice, active_sessions, study_sessions, monthly_stats,
                 cmd, sess, mon, out>>

\* the study loop left at any iteration, without the test of the range
StudyEndAnyTime(c) ==
  /\ task[c].pc = "study_loop"
  /\ task[c].due <= now
  /\ sess' = [sess EXCEPT ![c].is_study_period = FALSE]
  /\ \E d \in NetDelays :
       task' = [task EXCEPT ![c].pc = "award", ![c].due = now + d]
  /\ UNCHANGED <<now, voice, active_sessions, study_sessions, monthly_stats,
                 cmd, mon, out>>

\* the study loop is over: is_study_period is cleared and the timer message
\* is edited a last time (await timer_msg.edit)
StudyEnd(c) ==
  /\ task[c].pc = "study_loop"
  /\ task[c].due <= now
  /\ ~(task[c].elapsed < sess[c].duration * SecPerMin /\ sess[c].is_running)
  /\ sess' = [sess EXCEPT ![c].is_study_period = FALSE]
  /\ \E d \in NetDelays :
       task' = [task EXCEPT ![c].pc = "award", ![c].due = now + d]
  /\ UNCHANGED <<now, voice, active_sessions, study_sessions, monthly_stats,
                 cmd, mon, out>>

\* award_credit on the session object s at time t, with the snapshot
\* current: the loop over the participants (no suspension point inside)
\* and what it leaves in the files and in the summary
Settled(s, current, t, fl) ==
  SettleAll(s.participants,
            [current |-> current, session_start |-> s.session_start,
             study_end |-> t, duration |-> s.duration,
             channel |-> s.channel, fail |-> fl],
            [files |-> study_sessions, stats |-> monthly_stats,
             credit_details |-> <<>>, awarded_users |-> {}, left_early |-> 0])

Settlement(c, s, current, t, fl) ==
  LET acc == Settled(s, current, t, fl)
  IN  /\ study_sessions' = acc.files
      /\ monthly_stats' = acc.stats
      /\ out' = [out EXCEPT ![c].settled = TRUE, ![c].study_end = t,
                   ![c].current = current,
                   ![c].left_early = acc.left_early,
                   ![c].credit_details = acc.credit_details,
                   ![c].awarded_users = acc.awarded_users,
                   ![c].storage =
                      [u \in Users |->
                         IF \E k \in DOMAIN acc.credit_details :
                              acc.credit_details[k].user = u
                         THEN fl[u] ELSE "ok"]]

\* award_credit: the snapshot, the loop and the summary (await
\* channel.send), which is sent only when somebody stayed; otherwise
\* break_period starts at once
AwardCredit(c, plans) ==
  /\ task[c].pc = "award"
  /\ task[c].due <= now
  /\ sess[c].is_running
  /\ \E fl \in plans, d \in Prompt :
       /\ Settlement(c, sess[c], Occupants(sess[c].channel), now, fl)
       /\ task' = [task EXCEPT
            ![c].pc = IF Settled(sess[c], Occupants(sess[c].channel), now, fl)
                           .awarded_users # {}
                      THEN "summary_send" ELSE "break_send",
            ![c].due = now + d]
  /\ UNCHANGED <<now, voice, active_sessions, cmd, sess, mon>>

\* the summary is sent: break_period sends its message (await channel.send)
SummarySent(c) ==
  /\ task[c].pc = "summary_send"
  /\ task[c].due <= now
  /\ \E d \in Prompt :
       task' = [task EXCEPT ![c].pc = "break_send", ![c].due = now + d]
  /\ UNCHANGED <<now, voice, active_sessions, study_sessions, monthly_stats,
                 cmd, sess, mon, out>>

\* the break message is sent: the break loop is entered
BreakSent(c) ==
  /\ task[c].pc = "break_send"
  /\ task[c].due <= now
  /\ task' = [task EXCEPT ![c] = [pc |-> "break_loop", due |-> now, elapsed |-> 0]]
  /\ UNCHANGED <<now, voice, active_sessions, study_sessions, monthly_stats,
                 cmd, sess, mon, out>>

\* one iteration of the break loop
BreakTick(c) ==
  /\ task[c].pc = "break_loop"
  /\ task[c].due <= now
  /\ task[c].elapsed < sess[c].break_time * SecPerMin
  /\ sess[c].is_running
  /\ \E d \in Prompt :
       LET remaining == sess[c].break_time * SecPerMin - task[c].elapsed
       IN  task' = [task EXCEPT ![c].due = now + d + Min(BreakUpdate, remaining),
                                ![c].elapsed = @ + BreakUpdate]
  /\ UNCHANGED <<now, voice, active_sessions, study_sessions, monthly_stats,
                 cmd, sess, mon, out>>

\* the break loop is over: the final edit and message, errors swallowed
BreakEnd(c) ==
  /\ task[c].pc = "break_loop"
  /\ task[c].due <= now
  /\ ~(task[c].elapsed < sess[c].break_time * SecPerMin /\ sess[c].is_running)
  /\ \E d \in Prompt :
       task' = [task EXCEPT ![c].pc = "final", ![c].due = now + d]
  /\ UNCHANGED <<now, voice, active_sessions, study_sessions, monthly_stats,
                 cmd, sess, mon, out>>

\* the end of start() without monitor_task.cancel()
FinishNoCancel(c) ==
  /\ task[c].pc = "final"
  /\ task[c].due <= now
  /\ sess' = [sess EXCEPT ![c].is_running = FALSE]
  /\ Exit(c, "completed")
  /\ UNCHANGED <<now, voice, study_sessions, monthly_stats, cmd, mon>>

\* break_period returns: start() stops the monitor and returns, and the
\* finally clause of the handler removes the session
Finish(c) ==
  /\ task[c].pc = "final"
  /\ task[c].due <= now
  /\ sess' = [sess EXCEPT ![c].is_running = FALSE]
  /\ mon' = [mon EXCEPT ![c].pc = IF @ \in {"sleep", "notify"} THEN "cancelled" ELSE @]
  /\ Exit(c, "completed")
  /\ UNCHANGED <<now, voice, study_sessions, monthly_stats, cmd>>

(* ------------------------- monitor_late_joiners ------------------------ *)
\* a monitor that also forgets the participants who are not in the channel
\* when it looks
ScanFromDropping(c, members, i, d) ==
  LET kept == SelectSeq(sess[c].participants,
                        LAMBDA p : voice[p.user] = sess[c].channel)
      known == {kept[j].user : j \in DOMAIN kept}
      rest == SelectSeq(SubSeq(members, i, Len(members)), LAMBDA u : u \notin known)
  IN  IF rest = <<>>
      THEN /\ mon' = [mon EXCEPT ![c] =
                 IF sess[c].is_running /\ sess[c].is_study_period
                 THEN [pc |-> "sleep", due |-> now + MonitorInterval, pending |-> <<>>]
                 ELSE [pc |-> "ended", due |-> 0, pending |-> <<>>]]
           /\ sess' = [sess EXCEPT ![c].participants = kept]
           /\ UNCHANGED out
      ELSE LET u == Head(rest)
               minutes_late == Minutes(now - sess[c].session_start)
           IN  /\ sess' = [sess EXCEPT ![c].participants =
                     add_participant(kept, u, now, sess[c].session_start)]
               /\ out' = [out EXCEPT ![c].notices = Append(@,
                     [user |-> u, minutes_late |-> minutes_late,
                      potential_credit |->
                        PotentialCredit(sess[c].session_start, now, sess[c].duration)])]
               /\ mon' = [mon EXCEPT ![c] = [pc |-> "notify", due |-> now + d,
                                             pending |-> Tail(rest)]]

\* the for loop over current_members from position i on: members already
\* known are skipped; the first unknown one is added and notified (await
\* channel.send); at the end of the list the while condition is tested
ScanFrom(c, members, i, d) ==
  LET known == ParticipantIds(c)
      rest == SelectSeq(SubSeq(members, i, Len(members)), LAMBDA u : u \notin known)
  IN  IF rest = <<>>
      THEN /\ mon' = [mon EXCEPT ![c] =
                 IF sess[c].is_running /\ sess[c].is_study_period
                 THEN [pc |-> "sleep", due |-> now + MonitorInterval, pending |-> <<>>]
                 ELSE [pc |-> "ended", due |-> 0, pending |-> <<>>]]
           /\ UNCHANGED <<sess, out>>
      ELSE LET u == Head(rest)
               minutes_late == Minutes(now - sess[c].session_start)
           IN  /\ sess' = [sess EXCEPT ![c].participants =
                     add_participant(@, u, now, sess[c].session_start)]
               /\ out' = [out EXCEPT ![c].notices = Append(@,
                     [user |-> u, minutes_late |-> minutes_late,
                      potential_credit |->
                        PotentialCredit(sess[c].session_start, now, sess[c].duration)])]
               /\ mon' = [mon EXCEPT ![c] = [pc |-> "notify", due |-> now + d,
                                             pending |-> Tail(rest)]]

\* the sleep of the monitor is over: it reads the channel's members
MonitorScan(c) ==
  /\ mon[c].pc = "sleep"
  /\ mon[c].due <= now
  /\ \E d \in Prompt : ScanFrom(c, MemberList(sess[c].channel), 1, d)
  /\ UNCHANGED <<now, voice, active_sessions, study_sessions, monthly_stats,
                 cmd, task>>

\* the welcome message is sent: the for loop goes on with the members left
MonitorNotified(c) ==
  /\ mon[c].pc = "notify"
  /\ mon[c].due <= now
  /\ \E d \in Prompt : ScanFrom(c, mon[c].pending, 1, d)
  /\ UNCHANGED <<now, voice, active_sessions, study_sessions, monthly_stats,
                 cmd, task>>

\* the welcome message raises: the exception ends the monitor task
MonitorRaises(c) ==
  /\ mon[c].pc = "notify"
  /\ mon[c].due <= now
  /\ mon' = [mon EXCEPT ![c] = [pc |-> "dead", due |-> 0, pending |-> <<>>]]
  /\ UNCHANGED <<now, voice, active_sessions, study_sessions, monthly_stats,
                 cmd, task, sess, out>>

(* --------------------------- specification ----------------------------- *)
\* the users US move between the channels CH
Moves(US, CH) ==
  \/ \E u \in US, ch \in CH : JoinVoice(u, ch)
  \/ \E u \in US : LeaveVoice(u)

\* the steps of the command tasks CS, invoked by the users US with the
\* arguments drawn from SA and BA
Commands(CS, US, SA, BA, skewed, plans) ==
  \/ \E c \in CS, u \in US, study \in SA, brk \in BA : Invoke(c, u, study, brk)
  \/ \E c \in CS : Reject(c)
  \/ \E c \in CS : Admit(c, skewed)
  \/ \E c \in CS : StartSent(c)
  \/ \E c \in CS : SendRaises(c)
  \/ \E c \in CS : StudySent(c)
  \/ \E c \in CS : StudyTick(c)
  \/ \E c \in CS : StudyEnd(c)
  \/ \E c \in CS : AwardCredit(c, plans)
  \/ \E c \in CS : SummarySent(c)
  \/ \E c \in CS : BreakSent(c)
  \/ \E c \in CS : BreakTick(c)
  \/ \E c \in CS : BreakEnd(c)
  \/ \E c \in CS : Finish(c)

\* the steps of the monitor tasks
Monitors(CS) ==
  \/ \E c \in CS : MonitorScan(c)
  \/ \E c \in CS : MonitorNotified(c)
  \/ \E c \in CS : MonitorRaises(c)

\* one session on one channel, users A and B coming and going
Next ==
  \/ Moves({"A", "B"}, {"ch1"})
  \/ Tick
  \/ Commands({1}, {"A", "B"}, StudyArgs, BreakArgs, TRUE, FailPlans)
  \/ Monitors({1})

Spec == Init /\ [][Next]_vars

InitRegistry ==
  /\ now = 0
  /\ voice \in [Users -> Channels \cup {NoChannel}]
  /\ voice["C"] = NoChannel /\ voice["A"] # NoChannel /\ voice["B"] # NoChannel
  /\ active_sessions = [ch \in Channels |-> NoCall]
  /\ study_sessions = {}
  /\ monthly_stats = NoStatsFile
  /\ cmd = [c \in Calls |-> NoCmd]
  /\ task = [c \in Calls |-> IdleTask]
  /\ sess = [c \in Calls |-> NoSession]
  /\ mon = [c \in Calls |-> NoMonitor]
  /\ out = [c \in Calls |-> NoOut]

NextRegistry ==
  \/ Tick
  \/ Commands(Calls, {"A", "B"}, {StudyLow, StudyHigh + 1},
             {MaxBreak, BreakHigh + 1}, FALSE, {[u \in Users |-> "ok"]})
  \/ \E c \in Calls : MonitorScan(c)

SpecRegistry == InitRegistry /\ [][NextRegistry]_vars


(* ------------------- the 25/5 session of three users ------------------- *)
\* /pomodoro with its default arguments on a channel where A and C are; B
\* enters LateMinutes after the session's start and C goes LeaveMinutes
\* after it. No message raises a storage error here.
DefaultStudy == 25
DefaultBreak == 5
LateMinutes == 10
LeaveMinutes == 20
ScenarioEnd == (DefaultStudy + DefaultBreak) * SecPerMin + 3 * NetLate

InitScenario ==
  /\ now = 0
  /\ voice = [u \in Users |-> IF u = "B" THEN NoChannel ELSE "ch1"]
  /\ active_sessions = [ch \in Channels |-> NoCall]
  /\ study_sessions = {}
  /\ monthly_stats = NoStatsFile
  /\ cmd = [c \in Calls |-> NoCmd]
  /\ task = [c \in Calls |-> IdleTask]
  /\ sess = [c \in Calls |-> NoSession]
  /\ mon = [c \in Calls |-> NoMonitor]
  /\ out = [c \in Calls |-> NoOut]

\* B is to enter now and has not
LateDue ==
  /\ sess[1].channel # NoChannel
  /\ now = sess[1].session_start + LateMinutes * SecPerMin
  /\ voice["B"] = NoChannel

\* C is to go now and has not
LeaveDue ==
  /\ sess[1].channel # NoChannel
  /\ now = sess[1].session_start + LeaveMinutes * SecPerMin
  /\ voice["C"] = "ch1"

\* B enters the channel LateMinutes after the start: before or after the
\* tasks that wake up at this very moment have run
LateJoin ==
  /\ LateDue
  /\ voice' = [voice EXCEPT !["B"] = "ch1"]
  /\ UNCHANGED <<now, active_sessions, study_sessions, monthly_stats,
                 cmd, task, sess, mon, out>>

\* C leaves the channel LeaveMinutes after the start
EarlyLeave ==
  /\ LeaveDue
  /\ voice' = [voice EXCEPT !["C"] = NoChannel]
  /\ UNCHANGED <<now, active_sessions, study_sessions, monthly_stats,
                 cmd, task, sess, mon, out>>

\* time does not pass over the moment of a move that is still to come
ScenarioTick ==
  /\ ~LateDue
  /\ ~LeaveDue
  /\ Advance(ScenarioEnd)

NextScenario ==
  \/ LateJoin
  \/ EarlyLeave
  \/ ScenarioTick
  \/ Invoke(1, "A", DefaultStudy, DefaultBreak)
  \/ Admit(1, FALSE)
  \/ StartSent(1)
  \/ SendRaises(1)
  \/ StudySent(1)
  \/ StudyTick(1)
  \/ StudyEnd(1)
  \/ AwardCredit(1, {[u \in Users |-> "ok"]})
  \/ SummarySent(1)
  \/ BreakSent(1)
  \/ BreakTick(1)
  \/ BreakEnd(1)
  \/ Finish(1)
  \/ Monitors({1})

SpecScenario == InitScenario /\ [][NextScenario]_vars

(* ------------- a session whose storage fails, messages sent ------------ *)
\* A is in the channel, B is or is not, and both come and go; C is not
\* there; the storage calls of at most one participant fail; no discord
\* call raises.
InitStorage ==
  /\ now = 0
  /\ voice \in {[u \in Users |-> IF u = "A" THEN "ch1"
                                 ELSE IF u = "B" THEN b ELSE NoChannel] :
                  b \in {"ch1", NoChannel}}
  /\ active_sessions = [ch \in Channels |-> NoCall]
  /\ study_sessions = {}
  /\ monthly_stats = NoStatsFile
  /\ cmd = [c \in Calls |-> NoCmd]
  /\ task = [c \in Calls |-> IdleTask]
  /\ sess = [c \in Calls |-> NoSession]
  /\ mon = [c \in Calls |-> NoMonitor]
  /\ out = [c \in Calls |-> NoOut]

\* the steps of the command task and of its monitor, but the settlement
StorageTasks ==
  \/ \E study \in StudyLow..MaxStudy, brk \in BreakLow..MaxBreak :
       Invoke(1, "A", study, brk)
  \/ Reject(1)
  \/ Admit(1, FALSE)
  \/ StartSent(1)
  \/ StudySent(1)
  \/ StudyTick(1)
  \/ StudyEnd(1)
  \/ SummarySent(1)
  \/ BreakSent(1)
  \/ BreakTick(1)
  \/ BreakEnd(1)
  \/ Finish(1)
  \/ MonitorScan(1)
  \/ MonitorNotified(1)

\* award_credit is ready to run
AwardReady(c) ==
  /\ task[c].pc = "award"
  /\ task[c].due <= now
  /\ sess[c].is_running

NextStorage ==
  \/ Moves({"A", "B"}, {"ch1"})
  \/ Tick
  \/ StorageTasks
  \/ AwardCredit(1, FailPlans)

\* the event loop runs a task that is ready, and time passes; for the
\* settlement the weak fairness is written on its enabling condition, which
\* only the settlement step ends
SpecStorage ==
  /\ InitStorage /\ [][NextStorage]_vars
  /\ WF_vars(StorageTasks) /\ WF_vars(Tick)
  /\ []<>(~AwardReady(1))

(* ---------------- two sessions and a user who changes ---------------- *)
\* A stays in ch1; B is in ch1 or ch2 and changes channel at any moment,
\* also between the steps of two tasks that are ready in the same second
\* (the tasks run one after the other, and the voice state update is
\* handled in between).  Sessions of StudyLow minutes without break.
InitHop ==
  /\ now = 0
  /\ voice \in {[u \in Users |-> IF u = "A" THEN "ch1"
                                 ELSE IF u = "B" THEN b ELSE NoChannel] :
                  b \in Channels}
  /\ active_sessions = [ch \in Channels |-> NoCall]
  /\ study_sessions = {}
  /\ monthly_stats = NoStatsFile
  /\ cmd = [c \in Calls |-> NoCmd]
  /\ task = [c \in Calls |-> IdleTask]
  /\ sess = [c \in Calls |-> NoSession]
  /\ mon = [c \in Calls |-> NoMonitor]
  /\ out = [c \in Calls |-> NoOut]

HopVoice(u) ==
  /\ voice[u] \in Channels
  /\ \E ch \in Channels \ {voice[u]} : voice' = [voice EXCEPT ![u] = ch]
  /\ UNCHANGED <<now, active_sessions, study_sessions, monthly_stats,
                 cmd, task, sess, mon, out>>

NextHop ==
  \/ HopVoice("B")
  \/ Tick
  \/ \E c \in Calls, u \in {"A", "B"} : Invoke(c, u, StudyLow, BreakLow)
  \/ \E c \in Calls : Reject(c)
  \/ \E c \in Calls : Admit(c, FALSE)
  \/ \E c \in Calls : StartSent(c)
  \/ \E c \in Calls : StudySent(c)
  \/ \E c \in Calls : StudyTick(c)
  \/ \E c \in Calls : StudyEnd(c)
  \/ \E c \in Calls : AwardCredit(c, {[u \in Users |-> "ok"]})
  \/ \E c \in Calls : SummarySent(c)
  \/ \E c \in Calls : BreakSent(c)
  \/ \E c \in Calls : BreakEnd(c)
  \/ \E c \in Calls : Finish(c)
  \/ \E c \in Calls : MonitorScan(c)
  \/ \E c \in Calls : MonitorNotified(c)

SpecHop == InitHop /\ [][NextHop]_vars

(* ------------- a participant who goes out and comes back -------------- *)
\* A runs /pomodoro in ch1 and stays.  B is in ch1 at the start or enters
\* right after it, goes out AwayAfter seconds after the start and is back
\* BackAfter seconds after it, before the study period ends.
AwayAfter == 2 * MonitorInterval
BackAfter == 4 * MonitorInterval

InitReturn == InitStorage

\* B, outside at the start, is to enter
EnterDue ==
  /\ sess[1].channel # NoChannel
  /\ voice["B"] = NoChannel
  /\ "B" \notin ParticipantIds(1)
  /\ now < sess[1].session_start + AwayAfter

\* B, a participant, is to go out
AwayDue ==
  /\ sess[1].channel # NoChannel
  /\ voice["B"] = "ch1"
  /\ "B" \in ParticipantIds(1)
  /\ now >= sess[1].session_start + AwayAfter
  /\ now < sess[1].session_start + BackAfter

\* B, a participant who went out, is to come back
BackDue ==
  /\ sess[1].channel # NoChannel
  /\ voice["B"] = NoChannel
  /\ "B" \in ParticipantIds(1)
  /\ now >= sess[1].session_start + BackAfter

Enter ==
  /\ EnterDue
  /\ voice' = [voice EXCEPT !["B"] = "ch1"]
  /\ UNCHANGED <<now, active_sessions, study_sessions, monthly_stats,
                 cmd, task, sess, mon, out>>

GoAway ==
  /\ AwayDue
  /\ voice' = [voice EXCEPT !["B"] = NoChannel]
  /\ UNCHANGED <<now, active_sessions, study_sessions, monthly_stats,
                 cmd, task, sess, mon, out>>

ComeBack ==
  /\ BackDue
  /\ voice' = [voice EXCEPT !["B"] = "ch1"]
  /\ UNCHANGED <<now, active_sessions, study_sessions, monthly_stats,
                 cmd, task, sess, mon, out>>

\* time does not pass over a move that is still to come
ReturnTick ==
  /\ ~EnterDue
  /\ ~AwayDue
  /\ ~BackDue
  /\ Tick

NextReturn ==
  \/ Enter
  \/ GoAway
  \/ ComeBack
  \/ ReturnTick
  \/ \E study \in StudyLow..MaxStudy, brk \in BreakLow..MaxBreak :
       Invoke(1, "A", study, brk)
  \/ Admit(1, FALSE)
  \/ StartSent(1)
  \/ StudySent(1)
  \/ StudyTick(1)
  \/ StudyEnd(1)
  \/ AwardCredit(1, {[u \in Users |-> "ok"]})
  \/ SummarySent(1)
  \/ BreakSent(1)
  \/ BreakTick(1)
  \/ BreakEnd(1)
  \/ Finish(1)
  \/ MonitorScan(1)
  \/ MonitorNotified(1)

SpecReturn == InitReturn /\ [][NextReturn]_vars

(* --------------- settlements on a month already filled ---------------- *)
\* The month's files as earlier sessions left them: the members "1".."k"
\* were each settled once, in this order, with 1, 2 or 3 minutes.
CrowdUser(n) == ToString(n)
CrowdMinutes(n) == 1 + (n % 3)

CrowdDoc(n) ==
  [user_id |-> CrowdUser(n), organization |-> "None",
   session_start |-> 0, session_end |-> 0,
   duration_minutes |-> CrowdMinutes(n), channel_name |-> "ch2",
   late_join |-> FALSE, completed |-> TRUE, written |-> 0]

RECURSIVE CrowdTotal(_)
CrowdTotal(k) == IF k = 0 THEN 0 ELSE CrowdMinutes(k) + CrowdTotal(k - 1)

\* what save_study_session and update_monthly_stats leave after the k
\* settlements: one file each, the organization's sum, and the entries in
\* the order of the stable sort (k <= TopLimit, nothing is cut off)
PriorDB(k) ==
  [files |-> {CrowdDoc(n) : n \in 1..k},
   stats |-> IF k = 0 THEN NoStatsFile
             ELSE [exists |-> TRUE,
                   data |-> [organizations |->
                               AddOrgMinutes(DefaultStats.organizations, "None",
                                             CrowdTotal(k)),
                             top_individuals |->
                               Truncate(SortDesc([n \in 1..k |->
                                 [user_id |-> CrowdUser(n), org |-> "None",
                                  minutes |-> CrowdMinutes(n)]]))]]]

FoldStart == MaxStudy * SecPerMin
FoldUsers == {"A", "B", CrowdUser(1)}
FoldOrg(u) == IF u \in Users THEN get_user_org(u) ELSE "None"

InitFold ==
  /\ now = FoldStart
  /\ voice = [u \in Users |-> NoChannel]
  /\ active_sessions = [ch \in Channels |-> NoCall]
  /\ \E k \in {0, TopLimit - 1, TopLimit} :
       /\ study_sessions = PriorDB(k).files
       /\ monthly_stats = PriorDB(k).stats
  /\ cmd = [c \in Calls |-> NoCmd]
  /\ task = [c \in Calls |-> IdleTask]
  /\ sess = [c \in Calls |-> NoSession]
  /\ mon = [c \in Calls |-> NoMonitor]
  /\ out = [c \in Calls |-> NoOut]

\* award_credit of a session of `duration` minutes that ends now, whose one
\* participant u was recorded `offset` seconds after its start and is or is
\* not in the snapshot; the next settlement comes a second later
FoldSettle(u, duration, offset, present, kind) ==
  /\ now < FoldStart + MaxFolds
  /\ LET start == now - duration * SecPerMin
         s == [channel |-> "ch1", duration |-> duration, break_time |-> 0,
               participants |-> <<[user |-> u, organization |-> FoldOrg(u),
                                   join_time |-> start + offset,
                                   late_join |-> offset > 0]>>,
               session_start |-> start,
               is_running |-> TRUE, is_study_period |-> FALSE]
     IN  /\ sess' = [sess EXCEPT ![1] = s]
         /\ Settlement(1, s, IF present THEN {u} ELSE {}, now,
                       [v \in FoldUsers \cup Users |-> kind])
  /\ now' = now + 1
  /\ UNCHANGED <<voice, active_sessions, cmd, task, mon>>

NextFold ==
  \E u \in FoldUsers, duration \in StudyLow..MaxStudy,
     offset \in {0, SecPerMin}, present \in BOOLEAN,
     kind \in FailKinds :
    FoldSettle(u, duration, offset, present, kind)

SpecFold == InitFold /\ [][NextFold]_vars

TypeOK ==
  /\ now \in 0..(MaxTime + MaxSkew)
  /\ \A c \in Calls : task[c].pc \in
       {"idle", "defer", "start_send", "study_send", "study_loop", "award",
        "summary_send", "break_send", "break_loop", "final", "done"}
  /\ voice \in [Users -> Channels \cup {NoChannel}]
  /\ active_sessions \in [Channels -> Calls \cup {NoCall}]

(* ============================== claims ================================= *)
\* the invocations whose session is registered and whose handler has not
\* left start() yet
Admitted(c) == sess[c].channel # NoChannel
Live(c) == Admitted(c) /\ task[c].pc # "done"
LiveOn(ch) == {c \in Calls : Live(c) /\ sess[c].channel = ch}

\* C1: a channel never has two live sessions, the registry names exactly
\* the live session of each channel, and an invocation that finds a session
\* registered for its channel ends with Conflict and changes nothing.
OneSessionPerChannel ==
  \A ch \in Channels :
    /\ Cardinality(LiveOn(ch)) <= 1
    /\ LiveOn(ch) = IF active_sessions[ch] = NoCall THEN {} ELSE {active_sessions[ch]}

SecondStartConflicts ==
  \A c \in Calls :
    (task[c].pc = "defer" /\ task'[c].pc # "defer")
      => LET ch == voice[cmd[c].user]
         IN  IF ch # NoChannel /\ active_sessions[ch] # NoCall
             THEN /\ out'[c].result = "Conflict"
                  /\ active_sessions' = active_sessions
                  /\ sess' = sess
             ELSE (ch # NoChannel
                   /\ cmd[c].study_minutes \in StudyLow..StudyHigh
                   /\ cmd[c].break_minutes \in BreakLow..BreakHigh)
                    => active_sessions'[ch] = c

C1_AtMostOneSession == []OneSessionPerChannel /\ [][SecondStartConflicts]_vars

C1_Witness ==
  \E c, b \in Calls :
    /\ out[c].result = "Conflict"
    /\ Live(b)
    /\ active_sessions[sess[b].channel] = b
    /\ voice[cmd[c].user] = sess[b].channel

\* C2: once the handler of an admitted session has returned, by completion
\* or by an exception, the registry does not hold its handle and the handle
\* was removed exactly once; before that it is registered and not removed.
C2_RetiredOnEveryExit ==
  \A c \in Calls :
    Admitted(c) =>
      IF task[c].pc = "done"
      THEN out[c].retired = 1 /\ active_sessions[sess[c].channel] # c
      ELSE out[c].retired = 0 /\ active_sessions[sess[c].channel] = c

C2_Witness ==
  \E c, b \in Calls :
    /\ task[c].pc = "done" /\ out[c].result = "failed" /\ out[c].retired = 1
    /\ task[b].pc = "done" /\ out[b].result = "completed" /\ out[b].retired = 1

\* the minutes announced for a user in the credit summary, 0 when none
AwardOf(c, u) ==
  LET hits == SelectSeq(out[c].credit_details, LAMBDA x : x.user = u)
  IN  IF hits = <<>> THEN 0 ELSE hits[1].minutes

\* C3: after settlement, every participant seeded at start who is in the
\* snapshot taken at study-period end has been awarded the full study
\* duration D.
C3_SeededFullCredit ==
  \A c \in Calls :
    out[c].settled =>
      \A u \in out[c].seeded \cap out[c].current :
        AwardOf(c, u) = sess[c].duration

C3_Witness ==
  \E c \in Calls : \E i \in DOMAIN sess[c].participants :
    /\ out[c].settled
    /\ sess[c].duration = MaxStudy
    /\ sess[c].participants[i].user \in out[c].seeded \cap out[c].current
    /\ sess[c].participants[i].late_join
    /\ out[c].study_end > sess[c].session_start + MaxStudy * SecPerMin
    /\ AwardOf(c, sess[c].participants[i].user) = MaxStudy

\* a late joiner recorded exactly m whole minutes after session start
JoinedAtMinute(c, i, m) ==
  /\ sess[c].participants[i].user \notin out[c].seeded
  /\ sess[c].participants[i].late_join
  /\ sess[c].participants[i].join_time = sess[c].session_start + m * SecPerMin

C5_PromiseKept ==
  \A c \in Calls :
    out[c].settled =>
      \A i \in DOMAIN out[c].notices :
        out[c].notices[i].user \in out[c].current
          => AwardOf(c, out[c].notices[i].user) = out[c].notices[i].potential_credit

\* the leaderboard entries of a user and the total of an organization
EntriesOf(file, u) ==
  IF file.exists
  THEN SelectSeq(file.data.top_individuals, LAMBDA ind : ind.user_id = u)
  ELSE <<>>

OrgTotal(file, org) ==
  IF file.exists /\ org \in DOMAIN file.data.organizations
  THEN file.data.organizations[org]
  ELSE 0

\* C6: in the settlement step every participant who is not in the snapshot
\* gets no credit: no file and no leaderboard entry of theirs changes, the
\* total of their organization does not change on their behalf, and the
\* left-early tally is the number of such participants.
AbsentUntouched ==
  \A c \in Calls :
    (task[c].pc = "award" /\ task'[c].pc # "award")
      => LET parts == sess[c].participants
             absent == {i \in DOMAIN parts : parts[i].user \notin Occupants(sess[c].channel)}
             stayed == DOMAIN parts \ absent
         IN  /\ out'[c].left_early = Cardinality(absent)
             /\ \A i \in absent :
                  /\ get_user_sessions(study_sessions', parts[i].user)
                       = get_user_sessions(study_sessions, parts[i].user)
                  /\ EntriesOf(monthly_stats', parts[i].user)
                       = EntriesOf(monthly_stats, parts[i].user)
                  /\ parts[i].user \notin out'[c].awarded_users
                  /\ AwardOf(c, parts[i].user)' = 0
                  /\ (\A j \in stayed : parts[j].organization # parts[i].organization)
                       => OrgTotal(monthly_stats', parts[i].organization)
                            = OrgTotal(monthly_stats, parts[i].organization)

C6_AbsentGetsNothing == [][AbsentUntouched]_vars

C6_Witness ==
  \E c \in Calls :
    /\ out[c].settled
    /\ out[c].left_early >= 1
    /\ out[c].credit_details # <<>>
    /\ study_sessions # {}

TopOf(file) == IF file.exists THEN file.data.top_individuals ELSE <<>>

\* C7: the stored top_individuals has at most 100 entries, no user id
\* twice, and falling minutes.
C7_LeaderboardInvariant ==
  LET top == TopOf(monthly_stats)
  IN  /\ Len(top) <= TopLimit
      /\ Cardinality({top[i].user_id : i \in DOMAIN top}) = Len(top)
      /\ \A i \in 1..(Len(top) - 1) : top[i].minutes >= top[i + 1].minutes

\* a full list from which the entry of a user just credited was cut off
C7_Witness ==
  /\ Len(TopOf(monthly_stats)) = TopLimit
  /\ out[1].settled /\ out[1].credit_details # <<>>
  /\ \E u \in out[1].awarded_users :
       /\ EntriesOf(monthly_stats, u) = <<>>
       /\ {r \in study_sessions : r.user_id = u} # {}
       /\ OrgTotal(monthly_stats, FoldOrg(u)) > 0

\* C8: a settlement that rewrites the month's file leaves, for the user it
\* folded, at most one entry, whose minutes are the sum of duration_minutes
\* over that user's session files.
FoldRecomputes ==
  monthly_stats' # monthly_stats =>
    LET u == sess'[1].participants[1].user
        e == EntriesOf(monthly_stats', u)
    IN  /\ Len(e) <= 1
        /\ e # <<>> => e[1].minutes = SumDuration({r \in study_sessions' : r.user_id = u})

C8_TotalFromRecords == [][FoldRecomputes]_vars

\* a user with two files whose entry holds their sum
C8_Witness ==
  \E u \in FoldUsers :
    /\ out[1].settled /\ u \in out[1].awarded_users /\ AwardOf(1, u) > 0
    /\ Cardinality({r \in study_sessions : r.user_id = u}) >= 2
    /\ EntriesOf(monthly_stats, u) # <<>>
    /\ EntriesOf(monthly_stats, u)[1].minutes
         = SumDuration({r \in study_sessions : r.user_id = u})

\* C10: a settlement in which every participant who stayed computes 0
\* minutes writes no session file and leaves the month's file, with the
\* members and the order of top_individuals, as it was.
ZeroSettlementKeepsFiles ==
  \A c \in Calls :
    ( /\ out'[c].settled /\ out'[c] # out[c]
      /\ out'[c].awarded_users # {}
      /\ \A u \in out'[c].awarded_users : AwardOf(c, u)' = 0 )
      => /\ study_sessions' = study_sessions
         /\ monthly_stats' = monthly_stats

C10_ZeroCreditNoRecord == [][ZeroSettlementKeepsFiles]_vars

\* a late joiner recorded in the last minute stays, gets 0 minutes, and
\* already had an entry in a list of several users
C10_Witness ==
  /\ out[1].settled /\ out[1].awarded_users # {} /\ out[1].credit_details = <<>>
  /\ \E i \in DOMAIN sess[1].participants :
       /\ sess[1].participants[i].user \in out[1].awarded_users
       /\ sess[1].participants[i].late_join
       /\ sess[1].participants[i].join_time
            >= sess[1].session_start + (sess[1].duration - 1) * SecPerMin
       /\ EntriesOf(monthly_stats, sess[1].participants[i].user) # <<>>
  /\ Len(TopOf(monthly_stats)) > 1

RecordsOf(u) == {r \in study_sessions : r.user_id = u}
OrgSum(file) ==
  OrgTotal(file, "Wina") + OrgTotal(file, "VTK") + OrgTotal(file, "None")

\* the session of the three users was settled: B entered and stayed, C left
ScenarioSettled ==
  /\ out[1].settled
  /\ sess[1].duration = DefaultStudy /\ sess[1].break_time = DefaultBreak
  /\ out[1].current = {"A", "B"}
  /\ out[1].seeded = {"A", "C"}

\* C9: in the 25/5 session where A stays, B enters 10 minutes after the
\* start and stays, and C leaves 20 minutes after it, the settlement writes
\* 25 minutes for A, 15 for B, nothing for C, and the organizations' totals
\* of the month grow by 40 minutes together.
C9_ScenarioCredits ==
  ScenarioSettled =>
    /\ AwardOf(1, "A") = DefaultStudy
    /\ AwardOf(1, "B") = DefaultStudy - LateMinutes
    /\ RecordsOf("C") = {}
    /\ OrgSum(monthly_stats) = 2 * DefaultStudy - LateMinutes

\* B entered after the scan of the tenth minute had run and was recorded by
\* the next one: 14 minutes, 39 in the organizations' totals
C9_RecordedLate ==
  /\ ScenarioSettled
  /\ AwardOf(1, "A") = DefaultStudy
  /\ AwardOf(1, "B") = DefaultStudy - LateMinutes - 1
  /\ RecordsOf("C") = {}
  /\ OrgSum(monthly_stats) = 2 * DefaultStudy - LateMinutes - 1

(* ------------------------- rejected starts ----------------------------- *)
Rejections == {"InvalidConfig", "ChannelEmpty", "Conflict"}

\* the step in which invocation c is turned down
RejectedStep(c) ==
  /\ task[c].pc = "defer"
  /\ task'[c].pc = "done"
  /\ out'[c].result \in Rejections

\* C11: the step that turns a start down (durations out of range, channel
\* without occupant, channel with a session) registers nothing, creates no
\* session and no monitor, leaves every session object as it was and
\* writes no file.
RejectKeepsState ==
  \A c \in Calls :
    RejectedStep(c) =>
      /\ active_sessions' = active_sessions
      /\ sess' = sess
      /\ mon' = mon
      /\ study_sessions' = study_sessions
      /\ monthly_stats' = monthly_stats
      /\ \A b \in Calls \ {c} : task'[b] = task[b] /\ out'[b] = out[b]

C11_RejectedStartNoChange == [][RejectKeepsState]_vars

\* a start turned down for a conflict while the channel's session, with its
\* participants, is registered and running
C11_Witness ==
  /\ out[2].result = "Conflict"
  /\ task[2].pc = "done"
  /\ sess[2] = NoSession
  /\ active_sessions[voice[cmd[2].user]] = 1
  /\ sess[1].is_running /\ sess[1].participants # <<>>

\* a start turned down for its durations
C11_InvalidSeen ==
  \E c \in Calls : out[c].result = "InvalidConfig" /\ sess[c] = NoSession

(* ------------------------- storage failures ---------------------------- *)
\* the settlement of c ran and a storage call of a participant who was
\* there failed
FailedFor(c, u) ==
  /\ out[c].settled
  /\ u \in out[c].current \cap ParticipantIds(c)
  /\ out[c].storage[u] # "ok"

\* the participants of c whose credit at time t is positive, who are in the
\* channel and whose storage calls succeed under the plan fl
DueRecord(c, t, fl) ==
  {i \in DOMAIN sess[c].participants :
     /\ sess[c].participants[i].user \in Occupants(sess[c].channel)
     /\ fl[sess[c].participants[i].user] = "ok"
     /\ MinutesToAward(sess[c].participants[i], sess[c].session_start, t,
                       sess[c].duration) > 0}

\* the settlement step of c, whatever the storage does for one participant:
\* each of the others who is due a record has their file of this settlement,
\* their line in the summary and their entry with their total, and the task
\* goes on to the summary or the break
SettlementContained ==
  \A c \in Calls :
    (task[c].pc = "award" /\ out'[c].settled /\ ~out[c].settled) =>
      /\ task'[c].pc \in {"summary_send", "break_send"}
      /\ sess'[c].is_running
      /\ \A i \in DueRecord(c, now, out'[c].storage) :
           LET p == sess[c].participants[i]
               m == MinutesToAward(p, sess[c].session_start, now, sess[c].duration)
           IN  /\ \E r \in study_sessions' :
                    /\ r.user_id = p.user /\ r.session_end = now
                    /\ r.duration_minutes = m
               /\ \E k \in DOMAIN out'[c].credit_details :
                    /\ out'[c].credit_details[k].user = p.user
                    /\ out'[c].credit_details[k].minutes = m
               /\ EntriesOf(monthly_stats', p.user) # <<>>
               /\ EntriesOf(monthly_stats', p.user)[1].minutes
                    = SumDuration({r \in study_sessions' : r.user_id = p.user})

Studying(c) ==
  /\ task[c].pc = "study_loop"
  /\ sess[c].is_running
  /\ sess[c].is_study_period

\* C13: while the study timer runs, a failed poll or welcome message costs
\* one cycle only: the scan task is still there and scans again within the
\* interval, so that who arrives later is added.
C13_ScanGoesOn ==
  \A c \in Calls :
    Studying(c) =>
      /\ mon[c].pc \in {"sleep", "notify"}
      /\ mon[c].due <= now + MonitorInterval

\* the welcome message raised, the scan task is gone and the study timer
\* is still running
C13_MonitorLost ==
  \E c \in Calls : Studying(c) /\ mon[c].pc = "dead"

(* ----------------------------- empty channel --------------------------- *)
\* the command task of c takes a step while its session is in the study
\* loop and nobody is in the channel
StepOnEmpty(c) ==
  /\ Studying(c)
  /\ Occupants(sess[c].channel) = {}
  /\ task'[c] # task[c]

\* C14: a session that finds its channel without occupant while it is
\* studying ends there, aborted: no settlement, no break.
EmptyAborts ==
  \A c \in Calls :
    StepOnEmpty(c) =>
      /\ task'[c].pc = "done"
      /\ ~out'[c].settled
      /\ out'[c].result # "completed"

C14_AbortedWhenEmpty == [][EmptyAborts]_vars

\* everybody left during the study loop, and the session was settled and
\* is in its break
C14_EmptyYetOnBreak ==
  \E c \in Calls :
    /\ out[c].settled /\ out[c].current = {} /\ out[c].left_early > 0
    /\ task[c].pc = "break_loop"

(* ---------------------------- phase ordering --------------------------- *)
InBreak(c) == task[c].pc \in {"break_send", "break_loop", "final"}

\* what holds of the phases in every state
PhasesInOrder ==
  \A c \in Calls :
    /\ out[c].settled =>
         out[c].study_end >= sess[c].session_start + sess[c].duration * SecPerMin
    /\ task[c].pc \in {"start_send", "study_send", "study_loop", "award"}
         => ~out[c].settled
    /\ InBreak(c) => out[c].settled
    /\ out[c].result = "completed" =>
         /\ out[c].settled
         /\ now >= out[c].study_end + sess[c].break_time * SecPerMin

\* once settled, a session is not settled again
SettledOnce ==
  \A c \in Calls :
    out[c].settled =>
      /\ out'[c].settled
      /\ out'[c].study_end = out[c].study_end
      /\ out'[c].credit_details = out[c].credit_details
      /\ out'[c].left_early = out[c].left_early
      /\ task'[c].pc # "award"

\* C15: the settlement comes only when the study timer has run
\* study_minutes * 60 seconds, and once; the break starts only after the
\* settlement; the session completes only when the break timer has run
\* break_minutes * 60 seconds.
C15_PhaseOrder == []PhasesInOrder /\ [][SettledOnce]_vars

\* a session with a break that completed after a settlement with credit
C15_Witness ==
  /\ out[1].result = "completed"
  /\ sess[1].break_time > 0
  /\ out[1].credit_details # <<>>
  /\ now = out[1].study_end + sess[1].break_time * SecPerMin

(* --------------------- the monitor and the settlement ------------------ *)
\* the study period of c is over and its settlement has not run yet
AwaitingSettlement(c) ==
  /\ task[c].pc = "award"
  /\ sess[c].is_running
  /\ ~sess[c].is_study_period
  /\ ~out[c].settled

\* C16: from the end of the study period to the end of the settlement's
\* loop the scan adds nobody to the session's participants.
NoLateEntry ==
  \A c \in Calls :
    AwaitingSettlement(c) => sess'[c].participants = sess[c].participants

C16_NoScanBeforeSettlement == [][NoLateEntry]_vars

\* a participant recorded after the end of the study period is in the set
\* that the settlement went through
C16_AddedAfterStudy ==
  \E c \in Calls :
    /\ out[c].settled
    /\ \E i \in DOMAIN sess[c].participants :
         /\ sess[c].participants[i].join_time
              >= sess[c].session_start + sess[c].duration * SecPerMin
         /\ sess[c].participants[i].user \in out[c].awarded_users

(* ------------------------ the monitor in the break --------------------- *)
\* C17: once break_period has been entered, nobody is added to the
\* session's participants and no welcome message is issued.
NoScanInBreak ==
  \A c \in Calls :
    InBreak(c) =>
      /\ sess'[c].participants = sess[c].participants
      /\ out'[c].notices = out[c].notices

C17_NoLateJoinInBreak == [][NoScanInBreak]_vars

\* in the break, with a participant recorded and welcomed after the
\* settlement
C17_AddedInBreak ==
  \E c \in Calls :
    /\ InBreak(c)
    /\ \E i \in DOMAIN sess[c].participants :
         /\ sess[c].participants[i].join_time > out[c].study_end
         /\ \E k \in DOMAIN out[c].notices :
              out[c].notices[k].user = sess[c].participants[i].user

(* --------------------------- seeded participants ----------------------- *)
\* C18: a participant taken from the occupants at the start has
\* late_join = FALSE and join_time = session_start, late_join is TRUE only
\* for those first seen by a scan, and the session file of a seeded
\* participant has late_join = FALSE and the session's start.
C18_SeededOnTime ==
  \A c \in Calls :
    \A i \in DOMAIN sess[c].participants :
      LET p == sess[c].participants[i]
      IN  /\ p.user \in out[c].seeded =>
               /\ ~p.late_join
               /\ p.join_time = sess[c].session_start
               /\ \A r \in study_sessions :
                    (r.user_id = p.user /\ r.session_end = out[c].study_end
                       /\ out[c].settled)
                      => ~r.late_join /\ r.session_start = sess[c].session_start
          /\ p.late_join => p.user \notin out[c].seeded

\* the file written for a participant who was there at the start says
\* late_join and a start later than the session's
C18_SeededRecordedLate ==
  \E c \in Calls : \E r \in study_sessions :
    /\ out[c].settled
    /\ r.user_id \in out[c].seeded
    /\ r.late_join
    /\ r.session_start > sess[c].session_start
    /\ r.duration_minutes = sess[c].duration

(* ----------------------- two sessions, one month ----------------------- *)
\* the minutes in the summary lines of credit_details that go to org
RECURSIVE CreditedTo(_, _)
CreditedTo(details, org) ==
  IF details = <<>> THEN 0
  ELSE (IF get_user_org(Head(details).user) = org THEN Head(details).minutes ELSE 0)
         + CreditedTo(Tail(details), org)

\* two sessions on different channels have both been settled
BothSettled ==
  /\ out[1].settled /\ out[2].settled
  /\ sess[1].channel # sess[2].channel

\* C19: when two sessions on different channels settle in the same month,
\* whatever the order of their steps, the month's file holds the increment
\* of every organization and the entry of every user from both.
C19_NoLostUpdate ==
  BothSettled =>
    /\ \A org \in ORGANIZATIONS \cup {"None"} :
         OrgTotal(monthly_stats, org)
           = CreditedTo(out[1].credit_details, org)
               + CreditedTo(out[2].credit_details, org)
    /\ \A u \in Users :
         AwardOf(1, u) + AwardOf(2, u) > 0 =>
           /\ Len(EntriesOf(monthly_stats, u)) = 1
           /\ EntriesOf(monthly_stats, u)[1].minutes = AwardOf(1, u) + AwardOf(2, u)

\* the two sessions were settled in the same second, each with credit
C19_Witness ==
  /\ BothSettled
  /\ out[1].study_end = out[2].study_end
  /\ out[1].credit_details # <<>>
  /\ out[2].credit_details # <<>>

(* ---------------------- conservation of the minutes -------------------- *)
\* C20: for every organization the total_minutes of the month's file is
\* the sum of duration_minutes over the session files of that organization,
\* also when a write of a session file or a read or write of the month's
\* file has failed.
C20_Conservation ==
  \A org \in ORGANIZATIONS \cup {"None"} :
    OrgTotal(monthly_stats, org)
      = SumDuration({r \in study_sessions : r.organization = org})

\* the file of a session could not be written and its minutes are in the
\* organization's total
C20_CountedWithoutRecord ==
  \E u \in Users :
    /\ out[1].settled
    /\ out[1].storage[u] = "save_fails"
    /\ AwardOf(1, u) > 0
    /\ {r \in study_sessions : r.user_id = u} = {}
    /\ OrgTotal(monthly_stats, get_user_org(u)) >= AwardOf(1, u)

\* the month's file could not be written and the session's file is there
C20_RecordNotCounted ==
  \E u \in Users :
    /\ out[1].settled
    /\ out[1].storage[u] = "write_fails"
    /\ {r \in study_sessions : r.user_id = u} # {}
    /\ OrgTotal(monthly_stats, get_user_org(u)) = 0

(* ------------------------------ is_running ----------------------------- *)
\* is_running of the session of c has been set to False
Stopped(c) == sess[c].channel # NoChannel /\ ~sess[c].is_running

\* C21: once is_running is False the timers of the session take no further
\* step, the scan adds nobody and welcomes nobody, and the session settles
\* nothing: no session file is written and the month's file is not changed.
StoppedStaysStill ==
  \A c \in Calls :
    Stopped(c) =>
      /\ task'[c] = task[c]
      /\ sess'[c] = sess[c]
      /\ mon'[c] = mon[c]
      /\ out'[c] = out[c]
      /\ study_sessions' = study_sessions
      /\ monthly_stats' = monthly_stats

C21_StopsWhenNotRunning == [][StoppedStaysStill]_vars

\* is_running is False, the monitor was cancelled in its sleep, and somebody
\* who is not a participant has entered the channel since
C21_Witness ==
  /\ Stopped(1)
  /\ mon[1].pc = "cancelled"
  /\ out[1].settled
  /\ Occupants(sess[1].channel) \ ParticipantIds(1) # {}

(* ------------------------------ termination ---------------------------- *)
\* the session of c ended normally and its channel is free again
CompletedRetired(c) ==
  /\ out[c].result = "completed"
  /\ out[c].retired = 1
  /\ active_sessions[sess[c].channel] = NoCall

\* a completed session has run its study period and its break in full, and
\* without a break it ends with the settlement
CompletionTimes ==
  \A c \in Calls :
    out[c].result = "completed" =>
      /\ out[c].study_end >= sess[c].session_start + sess[c].duration * SecPerMin
      /\ now >= sess[c].session_start
                  + (sess[c].duration + sess[c].break_time) * SecPerMin
      /\ sess[c].break_time = 0 => now = out[c].study_end

LateCap(join_time, session_start, duration) ==
  Max(0, duration - ((join_time - session_start) \div SecPerMin))

\* the bounds for one participant p and the minutes m computed for them
WithinBounds(p, m, session_start, duration) ==
  /\ m \in 0..duration
  /\ p.late_join => m <= LateCap(p.join_time, session_start, duration)

\* the computation on a grid of inputs: sessions of 1 to MaxStudy + 1
\* minutes whose settlement comes up to two minutes late, joins at every
\* tenth second up to the settlement, late or not
GridJoins(duration) == {MonitorInterval * k : k \in 0..(6 * (duration + 2))}
GridBounded ==
  \A duration \in StudyLow..(MaxStudy + 1) :
    \A over \in {0, NetLate, SecPerMin, 2 * SecPerMin} :
      \A join \in GridJoins(duration) :
        \A late \in BOOLEAN :
          LET study_end == duration * SecPerMin + over
              p == [user |-> "A", organization |-> "Wina",
                    join_time |-> join, late_join |-> late]
          IN  join <= study_end =>
                WithinBounds(p, MinutesToAward(p, 0, study_end, duration),
                             0, duration)

\* the settlements that happened: every participant who was evaluated and
\* every file written
SettledWithinBounds ==
  /\ \A c \in Calls :
       out[c].settled =>
         \A i \in DOMAIN sess[c].participants :
           LET p == sess[c].participants[i]
           IN  /\ p.user \in out[c].awarded_users =>
                    /\ p.join_time <= out[c].study_end
                    /\ WithinBounds(p, AwardOf(c, p.user),
                                    sess[c].session_start, sess[c].duration)
               /\ \A r \in study_sessions :
                    (r.user_id = p.user /\ r.session_end = out[c].study_end) =>
                      r.duration_minutes \in 1..sess[c].duration

\* C23: the minutes computed at settlement are an integer from 0 to
\* study_minutes, for a late joiner at most
\* max(0, study_minutes - floor((join_time - session_start) / 60)), and
\* every session file holds from 1 to study_minutes minutes.
C23_CreditWithinBounds == GridBounded /\ SettledWithinBounds

\* a settlement with a late joiner credited exactly their cap, below the
\* study time, and their file
C23_Witness ==
  /\ out[1].settled
  /\ \E i \in DOMAIN sess[1].participants :
       LET p == sess[1].participants[i]
       IN  /\ p.late_join
           /\ p.user \in out[1].awarded_users
           /\ AwardOf(1, p.user) = LateCap(p.join_time, sess[1].session_start,
                                           sess[1].duration)
           /\ AwardOf(1, p.user) \in 1..(sess[1].duration - 1)
           /\ \E r \in study_sessions :
                r.user_id = p.user /\ r.duration_minutes = AwardOf(1, p.user)

(* ------------------------- the session files --------------------------- *)
\* every write succeeded here, so there is one file for each line of the
\* summaries
RecordCount ==
  Cardinality(study_sessions)
    = Len(out[1].credit_details) + Len(out[2].credit_details)

\* a file, once written, stays as it was written
RecordsKept == study_sessions \subseteq study_sessions'

\* C24: one session file is created for each participant of each session
\* with positive credit, and a file is never changed or replaced: the
\* number of files is the number of successful writes, and every earlier
\* file still holds what was written.
C24_OneRecordEach == []RecordCount /\ [][RecordsKept]_vars

\* both sessions credited B and only one file of B is left
C24_Overwritten ==
  /\ out[1].settled /\ out[2].settled
  /\ AwardOf(1, "B") > 0 /\ AwardOf(2, "B") > 0
  /\ Cardinality({r \in study_sessions : r.user_id = "B"}) = 1

(* ------------------- leaving and coming back ------------------------- *)
\* a participant's record stays what it was when it was created
RecordsUntouched ==
  \A i \in DOMAIN sess[1].participants :
    /\ i \in DOMAIN sess'[1].participants
    /\ sess'[1].participants[i] = sess[1].participants[i]

\* the minutes of a participant found at settlement are those of the
\* record: B, seeded with A who never left, is awarded what A is awarded
CreditFromRecord ==
  out[1].settled =>
    /\ \A i \in DOMAIN sess[1].participants :
         sess[1].participants[i].user \in out[1].current =>
           AwardOf(1, sess[1].participants[i].user)
             = MinutesToAward(sess[1].participants[i], sess[1].session_start,
                              out[1].study_end, sess[1].duration)
    /\ {"A", "B"} \subseteq out[1].seeded \cap out[1].current
         => AwardOf(1, "B") = AwardOf(1, "A")

\* B has been out of the channel and is back when the snapshot is taken
BackAtSettlement ==
  /\ out[1].settled
  /\ "B" \in out[1].current
  /\ out[1].study_end >= sess[1].session_start + BackAfter

\* C25: a participant's record (join_time, late flag) is created once and
\* never modified or removed, and the credit depends only on it and on the
\* presence in the snapshot taken at settlement: a participant who left
\* during the study period and is back at the snapshot is awarded the
\* minutes of one who stayed since the first recorded join.
C25_AbsenceInBetweenIgnored == []CreditFromRecord /\ [][RecordsUntouched]_vars

\* B, seeded with A, went out and came back, and both have the full
\* duration; or B, recorded late, went out and came back and has the
\* minutes counted from the first record
C25_Witness ==
  /\ BackAtSettlement
  /\ sess[1].duration = MaxStudy
  /\ \/ "B" \in out[1].seeded /\ AwardOf(1, "B") = MaxStudy
                              /\ AwardOf(1, "A") = MaxStudy
     \/ \E i \in DOMAIN sess[1].participants :
          /\ sess[1].participants[i].user = "B"
          /\ sess[1].participants[i].late_join
          /\ sess[1].participants[i].join_time < sess[1].session_start + AwayAfter
          /\ AwardOf(1, "B") > 0

====
